---- MODULE Spec2Model ----
(***************************************************************************)
(* A model of rtxss.py: the NvidiaWebServer poll-and-broadcast loop        *)
(* (update_data), its history deque, the two control endpoints             *)
(* (/api/set_power, /api/set_update_interval), the start/stop of the       *)
(* server, the connect/disconnect handlers with their client counter, and  *)
(* NvidiaDataCollector.get_process_data.                                   *)
(*                                                                         *)
(* Threads.  The async driver the build bundles is                         *)
(* engineio.async_drivers.threading (compile_rtxss.py, hidden_imports), so *)
(* request and event handlers run on their own threads beside the          *)
(* update_data thread; a read-modify-write of an attribute is two steps.   *)
(*                                                                         *)
(* Numbers.  Python floats are modelled exactly as fixed-point values:     *)
(*   - a duration in seconds is a record [s |-> whole seconds,             *)
(*     frac |-> thousandths], which holds interval / 1000.0 for every      *)
(*     integer number of milliseconds;                                     *)
(*   - float(text) of a telemetry field is the value in hundredths.        *)
(* Time.  datetime.now() is the variable clock, which advances once per    *)
(* poll cycle, so the timestamps of two cycles differ.                     *)
(***************************************************************************)
EXTENDS Integers, Sequences, FiniteSets, TLC

(***************************************************************************)
(* Bounds of the model (not program constants).                            *)
(***************************************************************************)
\* poll cycles explored when the request handlers run beside the loop
MaxCycles == 2
\* poll cycles explored when the loop runs alone (more than the deque holds)
MaxRingCycles == 62
\* poll cycles whose tool output is not the nominal one
MaxAnomalies == 2
\* the same, when the loop runs alone
MaxRingAnomalies == 1
\* interval requests handled beside the loop
MaxRequests == 2
\* control requests handled when the endpoints run alone
MaxControlRequests == 3
MaxShortCycles == 1
MaxWarnCycles == 2
MaxExits == 1
\* Start Server requests made while the server thread is alive
MaxRefusedStarts == 1
MaxClients == 2
MaxEvents == 4
MaxGets == 2
MaxProcs == 1
\* lines of the primary query's output
MaxRows == 4
\* poll cycles, failing tool answers and client connects when the loop's
\* progress is followed
MaxLiveCycles == 2
MaxLiveAnomalies == 1
MaxLiveEvents == 1
\* control requests, /api/gpu_data requests and client events, taken
\* together, when every entry point runs beside the loop
MaxFrameCalls == 2
\* interval requests and client events beside a loop that may hang
MaxHungRequests == 1
MaxHungEvents == 2

(***************************************************************************)
(* Program constants.                                                      *)
(***************************************************************************)
\* the packages install_build_dependencies installs
BuildDepCount == 8
\* deque(maxlen=60)
HistoryMaxLen == 60
\* if not 400 <= wattage <= 600
MinWattage == 400
MaxWattage == 600
\* data.get('wattage', 500)
DefaultWattage == 500
\* if not 100 <= interval <= 10000
MinIntervalMs == 100
MaxIntervalMs == 10000
\* data.get('interval', 1000)
DefaultIntervalMs == 1000
\* if len(parts) >= 16
GpuFieldCount == 16

VARIABLES
    running,          \* NvidiaWebServer.running
    update_interval,  \* NvidiaWebServer.update_interval, seconds
    gpu_history,      \* NvidiaWebServer.gpu_history, oldest first
    server_thread,    \* SystemTrayApp.server_thread: "none" or "alive"
    pc,               \* where the update_data thread stands
    gpu_data,         \* update_data's local gpu_data
    sleep_for,        \* the argument of the time.sleep in progress
    emitted,          \* the payload of the last socketio.emit('gpu_update')
    http,             \* the last control request and what it did
    clock,            \* datetime.now(); also the number of cycles begun
    budget,           \* what is left of the model's bounds
    obs,              \* history variables the properties read
    older_loops,      \* where the update_data threads started earlier stand
    connected_clients, \* NvidiaWebServer.connected_clients
    sessions,         \* the clients the transport holds a session for
    handler,          \* the connect/disconnect handler running for each client
    delivery,         \* what the last socketio.emit('gpu_update') did
    process_data,     \* update_data's local process_data
    graphics_warning_logged, \* NvidiaDataCollector._graphics_warning_logged
    collector,        \* callers of get_process_data that stand at its warning
    proc,             \* a call of get_process_data on its own: query and result
    snap,             \* a call of get_gpu_data on its own: answers and result
    build             \* a run of the build script's main: environment and progress

\* the variables of the subscriber registry
registryVars == <<connected_clients, sessions, handler>>

\* the variables of the shared NvidiaDataCollector
collectorVars == <<graphics_warning_logged, collector>>

vars == <<running, update_interval, gpu_history, server_thread, pc, gpu_data,
          sleep_for, emitted, http, clock, budget, obs, older_loops,
          connected_clients, sessions, handler, delivery, process_data,
          graphics_warning_logged, collector, proc, snap, build>>

(***************************************************************************)
(* Seconds and floats.                                                     *)
(***************************************************************************)
\* a conversion that forgets the division: the milliseconds taken as seconds
MsToSeconds_NoDivision(ms) == [s |-> ms, frac |-> 0]

\* interval / 1000.0
MsToSeconds(ms) == [s |-> ms \div 1000, frac |-> ms % 1000]

\* self.update_interval = 1.0
InitialInterval == [s |-> 1, frac |-> 0]

\* The texts nvidia-smi prints for temperature.gpu and power.draw with
\* nounits: a number, or a bracketed sentinel for an unsupported field.
NumericTexts == {"55", "70", "120.50", "200.00"}

\* float(text): the value in hundredths; ok = FALSE is ValueError
Float(text) ==
    CASE text = "55" -> [ok |-> TRUE, v |-> 5500]
      [] text = "70" -> [ok |-> TRUE, v |-> 7000]
      [] text = "120.50" -> [ok |-> TRUE, v |-> 12050]
      [] text = "200.00" -> [ok |-> TRUE, v |-> 20000]
      [] OTHER -> [ok |-> FALSE, v |-> 0]

(***************************************************************************)
(* The history deque.                                                      *)
(***************************************************************************)
\* an append to a list that nothing trims
DequeAppend_Unbounded(d, x) == Append(d, x)

\* a full buffer that refuses the new item instead of dropping the oldest
DequeAppend_DropNewest(d, x) == IF Len(d) >= HistoryMaxLen THEN d ELSE Append(d, x)

\* deque(maxlen=60).append(x): a full deque drops its leftmost item
DequeAppend(d, x) ==
    IF Len(d) >= HistoryMaxLen THEN Append(Tail(d), x) ELSE Append(d, x)

(***************************************************************************)
(* NvidiaDataCollector.get_gpu_data.  The tool's answer to the primary     *)
(* query is [raised, rc, rows]: raised names the exception subprocess.run  *)
(* ends with ("" for none; a non-zero exit is CalledProcessError, a tool   *)
(* that cannot be launched FileNotFoundError), rows are the lines of       *)
(* stdout.  A row is [nfields, index, temperature, power_draw,             *)
(* gen_current, gen_max].  cuda and banner are the answers of the two      *)
(* CUDA version invocations.                                               *)
(***************************************************************************)
Row(n, i, t, p) ==
    [nfields |-> n, index |-> i, temperature |-> t, power_draw |-> p,
     gen_current |-> "4", gen_max |-> "4"]

\* a row whose two PCIe generation fields are gc and gm
GenRow(n, i, gc, gm) ==
    [Row(n, i, "55", "120.50") EXCEPT !.gen_current = gc, !.gen_max = gm]

\* a table that doubles the rate with every generation
get_gts_Doubling(gen) ==
    CASE gen = "1" -> 25
      [] gen = "2" -> 50
      [] gen = "3" -> 100
      [] gen = "4" -> 200
      [] gen = "5" -> 400
      [] gen = "6" -> 800
      [] OTHER -> 0

\* gen_map.get(str(gen).strip(), 0.0), in tenths of a GT/s
get_gts(gen) ==
    CASE gen = "1" -> 25
      [] gen = "2" -> 50
      [] gen = "3" -> 80
      [] gen = "4" -> 160
      [] gen = "5" -> 320
      [] gen = "6" -> 640
      [] OTHER -> 0

Snapshot(row, cuda_version) ==
    [index |-> row.index, temperature |-> row.temperature, power_draw |-> row.power_draw,
     pcie_gen_current |-> row.gen_current, pcie_gen_max |-> row.gen_max,
     pcie_gts_current |-> get_gts(row.gen_current),
     pcie_gts_max |-> get_gts(row.gen_max),
     cuda_version |-> cuda_version]

\* a loop that gives up at the first short row
RECURSIVE ParseRows_StopAtShort(_, _)
ParseRows_StopAtShort(rows, cuda_version) ==
    IF rows = <<>> THEN <<>>
    ELSE IF Head(rows).nfields >= GpuFieldCount
         THEN <<Snapshot(Head(rows), cuda_version)>>
                  \o ParseRows_StopAtShort(Tail(rows), cuda_version)
         ELSE <<>>

\* for line in lines: if len(parts) >= 16: gpu_info.append({...})
RECURSIVE ParseRows(_, _)
ParseRows(rows, cuda_version) ==
    IF rows = <<>> THEN <<>>
    ELSE IF Head(rows).nfields >= GpuFieldCount
         THEN <<Snapshot(Head(rows), cuda_version)>> \o ParseRows(Tail(rows), cuda_version)
         ELSE ParseRows(Tail(rows), cuda_version)

\* the answer of --query-gpu=cuda_version: exit code and lines of stdout
CudaAnswer(rc, lines) == [rc |-> rc, lines |-> lines]

\* a line of the banner: whether it holds 'CUDA Version:' and the words after it
BannerLine(marker, tokens) == [marker |-> marker, tokens |-> tokens]

\* the answer of plain nvidia-smi
BannerAnswer(rc, lines) == [rc |-> rc, lines |-> lines]

NonBlank(lines) == {i \in DOMAIN lines : lines[i] # ""}
Marked(lines) == {i \in DOMAIN lines : lines[i].marker}
Least(S) == CHOOSE i \in S : \A j \in S : i <= j

\* a lookup that does not turn to the banner
cuda_version_NoFallback(cuda, banner) ==
    IF cuda.rc = 0 /\ NonBlank(cuda.lines) # {}
    THEN cuda.lines[Least(NonBlank(cuda.lines))]
    ELSE "N/A"

\* cuda_version after the inner try: the first line of the dedicated query,
\* else the word after the banner's first marker, else "N/A" (also when
\* nothing follows the marker: the IndexError is caught and logged)
cuda_version(cuda, banner) ==
    IF cuda.rc = 0 /\ NonBlank(cuda.lines) # {}
    THEN cuda.lines[Least(NonBlank(cuda.lines))]
    ELSE IF banner.rc = 0 /\ Marked(banner.lines) # {}
         THEN LET line == banner.lines[Least(Marked(banner.lines))]
              IN IF line.tokens = <<>> THEN "N/A" ELSE line.tokens[1]
         ELSE "N/A"

\* except clauses that name the tool's exit only
Caught_ToolExitOnly(exc) == exc = "CalledProcessError"

\* except subprocess.CalledProcessError / except Exception
Caught(exc) == exc \notin {"KeyboardInterrupt", "SystemExit"}

\* one call: the exception that leaves it ("" for none) and the list returned
GpuCall(out) ==
    IF out.raised # ""
    THEN [raised |-> IF Caught(out.raised) THEN "" ELSE out.raised, value |-> <<>>]
    ELSE [raised |-> "", value |-> ParseRows(out.rows, cuda_version(out.cuda, out.banner))]

get_gpu_data(out) == GpuCall(out).value

NominalCuda == CudaAnswer(0, <<"12.4", "12.4">>)
NominalBanner == BannerAnswer(0, <<BannerLine(FALSE, <<>>), BannerLine(TRUE, <<"12.2", "|">>)>>)

\* the tool ran and printed rows
Answer(rows) ==
    [raised |-> "", rc |-> 0, rows |-> rows, cuda |-> NominalCuda, banner |-> NominalBanner]

\* the tool did not run to a zero exit
Failure(exc) ==
    [raised |-> exc, rc |-> 1, rows |-> <<>>, cuda |-> NominalCuda, banner |-> NominalBanner]

NominalRows == <<Row(16, "0", "55", "120.50"), Row(16, "1", "70", "200.00")>>
NominalOutput == Answer(NominalRows)

\* the answers that are not the nominal one
AnomalousOutputs ==
    { Failure("CalledProcessError"),
      Answer(<<>>),
      Answer(<<Row(16, "0", "[N/A]", "120.50"), Row(16, "1", "70", "200.00")>>),
      Answer(<<Row(16, "0", "55", "[N/A]"), Row(16, "1", "70", "200.00")>>),
      Answer(<<Row(10, "0", "55", "120.50"), Row(16, "1", "70", "200.00")>>) }

\* the texts of the two PCIe generation fields
GenTexts == {"1", "2", "3", "4", "5", "6", "7", "16", "[N/A]"}

\* the text of the index field of the i-th line
IndexText(i) ==
    CASE i = 1 -> "0"
      [] i = 2 -> "1"
      [] i = 3 -> "2"
      [] i = 4 -> "3"
      [] i = 5 -> "4"
      [] OTHER -> "5"

\* the numbers of fields a line may split into: all sixteen, or ten
FieldCounts == {GpuFieldCount, 10}

\* up to MaxRows lines, each complete or short, with the generations gc, gm
\* on the first line and gm, gc on the others
RowBatches ==
    UNION {{[i \in 1..n |-> GenRow(shape[i], IndexText(i),
                                     IF i = 1 THEN gc ELSE gm,
                                     IF i = 1 THEN gm ELSE gc)] :
               shape \in [1..n -> FieldCounts], gc \in GenTexts, gm \in GenTexts} :
           n \in 0..MaxRows}

CudaAnswers ==
    {CudaAnswer(0, <<"12.4", "12.4">>), CudaAnswer(0, <<>>), CudaAnswer(0, <<"">>),
     CudaAnswer(1, <<>>), CudaAnswer(1, <<"12.4">>)}

BannerAnswers ==
    {BannerAnswer(0, <<BannerLine(FALSE, <<>>), BannerLine(TRUE, <<"12.2", "|">>)>>),
     BannerAnswer(0, <<BannerLine(TRUE, <<"12.2", "|">>), BannerLine(TRUE, <<"11.0">>)>>),
     BannerAnswer(0, <<BannerLine(FALSE, <<>>)>>),
     BannerAnswer(0, <<BannerLine(TRUE, <<>>), BannerLine(TRUE, <<"11.0">>)>>),
     BannerAnswer(1, <<BannerLine(TRUE, <<"12.2", "|">>)>>)}

\* the exceptions the primary subprocess.run ends with
ToolFailures == {"CalledProcessError", "FileNotFoundError", "OSError"}

\* every answer of the samples
GpuOutputs ==
    {[Answer(rows) EXCEPT !.cuda = c, !.banner = b] :
        rows \in RowBatches, c \in CudaAnswers, b \in BannerAnswers}
    \cup {Failure(exc) : exc \in ToolFailures}

(***************************************************************************)
(* Request bodies.  A body is [json, has, val]: json = FALSE is a request  *)
(* whose get_json() is None; has = FALSE is a JSON object without the      *)
(* field; val is [kind, n, s], a JSON integer n or a JSON string s.        *)
(***************************************************************************)
JInt(n) == [kind |-> "int", n |-> n, s |-> ""]
JStr(s) == [kind |-> "str", n |-> 0, s |-> s]
Body(v) == [json |-> TRUE, has |-> TRUE, val |-> v]
NoField == [json |-> TRUE, has |-> FALSE, val |-> JInt(0)]
NoJson == [json |-> FALSE, has |-> FALSE, val |-> JInt(0)]

\* int(x): ok = FALSE is ValueError
IntOf(v) ==
    IF v.kind = "int" THEN [ok |-> TRUE, n |-> v.n]
    ELSE CASE v.s = "450" -> [ok |-> TRUE, n |-> 450]
           [] v.s = "250" -> [ok |-> TRUE, n |-> 250]
           [] OTHER -> [ok |-> FALSE, n |-> 0]

\* a read that refuses a body without the field instead of defaulting
ReadInt_RequireField(body, default) ==
    IF ~body.json THEN [exc |-> "AttributeError", n |-> 0]
    ELSE IF ~body.has THEN [exc |-> "KeyError", n |-> 0]
    ELSE LET r == IntOf(body.val)
         IN IF r.ok THEN [exc |-> "", n |-> r.n] ELSE [exc |-> "ValueError", n |-> 0]

\* int(data.get(field, default)): exc is "" or the exception raised
ReadInt(body, default) ==
    IF ~body.json THEN [exc |-> "AttributeError", n |-> 0]
    ELSE LET r == IntOf(IF body.has THEN body.val ELSE JInt(default))
         IN IF r.ok THEN [exc |-> "", n |-> r.n] ELSE [exc |-> "ValueError", n |-> 0]

\* the integer wattages and intervals requests are made with
WattageSamples == {-1, 0, 399, 400, 401, 599, 600, 601, 1000}
IntervalSamples == {99, 100, 10000, 10001}

PowerBodies ==
    {Body(JInt(n)) : n \in WattageSamples} \cup {Body(JStr("450")), Body(JStr("abc")), NoField, NoJson}
IntervalBodies ==
    {Body(JInt(n)) : n \in IntervalSamples} \cup {Body(JStr("abc")), NoField, NoJson}

\* how 'nvidia-smi -pl' ends: exit 0, or a non-zero exit (CalledProcessError)
PlOutcomes == {"ok", "nonzero"}

\* a view's outcome: kind "json" is a jsonify'd {success, message}, "none" is a
\* view that returned None, "raised" an exception that left the view
Json(ok, text, arg) == [kind |-> "json", success |-> ok, text |-> text, arg |-> arg]
NoResult == [kind |-> "none", success |-> FALSE, text |-> "", arg |-> 0]
Raised(exc) == [kind |-> "raised", success |-> FALSE, text |-> exc, arg |-> 0]

(***************************************************************************)
(* The control endpoints (NvidiaWebServer.setup_routes).                   *)
(***************************************************************************)
\* the upper bound taken one too far
WattageAccepted_OffByOne(w) == MinWattage <= w /\ w <= MaxWattage + 1

\* not (not 400 <= wattage <= 600)
WattageAccepted(w) == MinWattage <= w /\ w <= MaxWattage

\* the command built from the default instead of the request's wattage
PowerCommand_Default(w) == DefaultWattage

\* cmd = ['nvidia-smi', '-pl', str(wattage)]: the wattage the command carries
PowerCommand(w) == w

\* set_power_limit: the commands it ran and how the view ended.  Only
\* CalledProcessError is caught, and its handler returns nothing.
set_power_limit(body, outcome) ==
    LET r == ReadInt(body, DefaultWattage)
    IN IF r.exc # "" THEN [cmds |-> <<>>, result |-> Raised(r.exc)]
       ELSE IF ~WattageAccepted(r.n)
            THEN [cmds |-> <<>>,
                  result |-> Json(FALSE, "Power limit must be between 400W and 600W", 0)]
            ELSE IF outcome = "ok"
                 THEN [cmds |-> <<PowerCommand(r.n)>>,
                       result |-> Json(TRUE, "Power limit set to {wattage}W successfully", r.n)]
                 ELSE [cmds |-> <<PowerCommand(r.n)>>, result |-> NoResult]

\* the upper bound taken one too far
IntervalAccepted_OffByOne(i) == MinIntervalMs <= i /\ i <= MaxIntervalMs + 1

\* not (not 100 <= interval <= 10000)
IntervalAccepted(i) == MinIntervalMs <= i /\ i <= MaxIntervalMs

\* a handler that stores the interval before it validates it
set_update_interval_WriteFirst(body, current) ==
    LET r == ReadInt(body, DefaultIntervalMs)
    IN IF r.exc # ""
       THEN [update_interval |-> current, accepted |-> <<>>,
             result |-> Json(FALSE, "Error setting update interval - {e}", 0)]
       ELSE IF ~(MinIntervalMs <= r.n /\ r.n <= MaxIntervalMs)
            THEN [update_interval |-> MsToSeconds(r.n), accepted |-> <<>>,
                  result |-> Json(FALSE, "Update interval must be between 100ms and 10000ms", 0)]
            ELSE [update_interval |-> MsToSeconds(r.n), accepted |-> <<r.n>>,
                  result |-> Json(TRUE, "Update interval set to {interval}ms", r.n)]

\* set_update_interval: the new value of self.update_interval and the view's
\* result; every exception is caught and answered with a failure
set_update_interval(body, current) ==
    LET r == ReadInt(body, DefaultIntervalMs)
    IN IF r.exc # ""
       THEN [update_interval |-> current, accepted |-> <<>>,
             result |-> Json(FALSE, "Error setting update interval - {e}", 0)]
       ELSE IF ~IntervalAccepted(r.n)
            THEN [update_interval |-> current, accepted |-> <<>>,
                  result |-> Json(FALSE, "Update interval must be between 100ms and 10000ms", 0)]
            ELSE [update_interval |-> MsToSeconds(r.n), accepted |-> <<r.n>>,
                  result |-> Json(TRUE, "Update interval set to {interval}ms", r.n)]

NoRequest ==
    [op |-> "none", body |-> NoJson, outcome |-> "", cmds |-> <<>>, result |-> NoResult,
     before |-> InitialInterval, after |-> InitialInterval]

\* POST /api/set_power
SetPowerLimit ==
    /\ budget.requests > 0
    /\ \E body \in PowerBodies, outcome \in PlOutcomes :
          LET r == set_power_limit(body, outcome)
          IN http' = [op |-> "set_power", body |-> body,
                      outcome |-> IF r.cmds = <<>> THEN "" ELSE outcome,
                      cmds |-> r.cmds, result |-> r.result,
                      before |-> update_interval, after |-> update_interval]
    /\ budget' = [budget EXCEPT !.requests = @ - 1]
    /\ UNCHANGED <<running, update_interval, gpu_history, server_thread, pc, gpu_data,
                   sleep_for, emitted, clock, obs>>
    /\ UNCHANGED <<older_loops, registryVars, delivery, process_data, collectorVars, proc, snap, build>>

\* a cycle has begun and its sleep has not
BeforeSleep == pc \in {"collect", "process", "history", "emit", "sleep"}

\* handlers that could not run while the loop is inside a tool call
HandlerBlocked_ByToolCall == pc \in {"collect", "process"}

\* whether a request or event handler has to wait for the update_data
\* thread: the handlers take no lock and join no thread
HandlerBlocked == FALSE

\* POST /api/set_update_interval
SetUpdateInterval ==
    /\ ~HandlerBlocked
    /\ budget.requests > 0
    /\ \E body \in IntervalBodies :
          LET r == set_update_interval(body, update_interval)
          IN /\ update_interval' = r.update_interval
             /\ http' = [op |-> "set_update_interval", body |-> body, outcome |-> "",
                         cmds |-> <<>>, result |-> r.result,
                         before |-> update_interval, after |-> r.update_interval]
             /\ obs' = [obs EXCEPT !.accepted = @ \o r.accepted,
                                   !.wrote_in_cycle = IF r.accepted # <<>> /\ BeforeSleep
                                                    THEN r.accepted ELSE @]
    /\ budget' = [budget EXCEPT !.requests = @ - 1]
    /\ UNCHANGED <<running, gpu_history, server_thread, pc, gpu_data, sleep_for,
                   emitted, clock>>
    /\ UNCHANGED <<older_loops, registryVars, delivery, process_data, collectorVars, proc, snap, build>>

(***************************************************************************)
(* NvidiaDataCollector.get_process_data.  A query q is what one call       *)
(* meets: whether nvidia-smi can be launched, the answers of the two       *)
(* queries, and what psutil finds for each pid.  nvidia_processes, a dict, *)
(* is its items in insertion order.                                        *)
(***************************************************************************)
\* one output line "pid, used_memory" split at the commas
AppRow(n, pid, memory) == [nfields |-> n, pid |-> pid, memory |-> memory]

DictHas(d, k) == \E i \in DOMAIN d : d[i].key = k

\* d[k] = v
DictSet(d, k, v) ==
    IF DictHas(d, k)
    THEN [i \in DOMAIN d |-> IF d[i].key = k THEN [key |-> k, value |-> v] ELSE d[i]]
    ELSE Append(d, [key |-> k, value |-> v])

\* the graphics rows written like the compute rows, without the test
DictSetIfAbsent_Overwrite(d, k, v) == DictSet(d, k, v)

\* if pid not in nvidia_processes: nvidia_processes[pid] = memory
DictSetIfAbsent(d, k, v) == IF DictHas(d, k) THEN d ELSE DictSet(d, k, v)

\* the loop over the compute query's lines
RECURSIVE MergeCompute(_, _)
MergeCompute(d, rows) ==
    IF rows = <<>> THEN d
    ELSE LET r == Head(rows)
         IN MergeCompute(IF r.nfields >= 2 THEN DictSet(d, r.pid, r.memory) ELSE d,
                         Tail(rows))

\* the loop over the graphics query's lines
RECURSIVE MergeGraphics(_, _)
MergeGraphics(d, rows) ==
    IF rows = <<>> THEN d
    ELSE LET r == Head(rows)
         IN MergeGraphics(IF r.nfields >= 2 THEN DictSetIfAbsent(d, r.pid, r.memory) ELSE d,
                          Tail(rows))

\* a call that gives up when either query exits non-zero
nvidia_processes_AbortOnFailure(q) ==
    IF q.compute.rc # 0 \/ q.graphics.rc # 0 THEN <<>>
    ELSE MergeGraphics(MergeCompute(<<>>, q.compute.rows), q.graphics.rows)

\* nvidia_processes after both queries; a query that exits non-zero adds nothing
nvidia_processes(q) ==
    LET c == IF q.compute.rc = 0 THEN MergeCompute(<<>>, q.compute.rows) ELSE <<>>
    IN IF q.graphics.rc = 0 THEN MergeGraphics(c, q.graphics.rows) ELSE c

\* the pid texts the queries are given
PidTexts == {"1", "2", "x"}

\* int(pid_str): ok = FALSE is ValueError
PidInt(t) ==
    CASE t = "1" -> [ok |-> TRUE, n |-> 1]
      [] t = "2" -> [ok |-> TRUE, n |-> 2]
      [] OTHER -> [ok |-> FALSE, n |-> 0]

\* what psutil.Process(pid), name() and memory_percent() come to
LookupOutcomes == {"ok", "NoSuchProcess", "AccessDenied"}

\* the except clause of the enrichment without the append
Enrich_OmitOnFailure(pid_str, outcome) ==
    LET pid == PidInt(pid_str)
    IN IF pid.ok /\ outcome = "ok"
       THEN <<[pid |-> JInt(pid.n), name |-> "python.exe", memory_percent |-> "1.5"]>>
       ELSE <<>>

\* the rows one item of nvidia_processes adds to process_data
Enrich(pid_str, outcome) ==
    LET pid == PidInt(pid_str)
    IN IF pid.ok /\ outcome = "ok"
       THEN <<[pid |-> JInt(pid.n), name |-> "python.exe", memory_percent |-> "1.5"]>>
       ELSE <<[pid |-> JStr(pid_str), name |-> "Unknown", memory_percent |-> "N/A"]>>

RECURSIVE EnrichAll(_, _)
EnrichAll(d, lookup) ==
    IF d = <<>> THEN <<>>
    ELSE Enrich(Head(d).key, lookup[Head(d).key]) \o EnrichAll(Tail(d), lookup)

\* the list get_process_data returns; when nvidia-smi cannot be launched
\* subprocess.run raises an OSError, which the outer except turns into []
get_process_data(q) ==
    IF ~q.launched THEN <<>> ELSE EnrichAll(nvidia_processes(q), q.lookup)

\* the call reaches the except clause of the graphics query
GraphicsQueryFailed(q) == q.launched /\ q.graphics.rc # 0

AppAnswer(rc, rows) == [rc |-> rc, rows |-> rows]

ComputeAnswers ==
    {AppAnswer(1, <<>>), AppAnswer(0, <<>>),
     AppAnswer(0, <<AppRow(2, "1", "100")>>),
     AppAnswer(0, <<AppRow(2, "2", "100")>>),
     AppAnswer(0, <<AppRow(2, "1", "100"), AppRow(2, "x", "70")>>),
     AppAnswer(0, <<AppRow(1, "2", ""), AppRow(2, "1", "100")>>)}

GraphicsAnswers ==
    {AppAnswer(1, <<>>), AppAnswer(0, <<>>),
     AppAnswer(0, <<AppRow(2, "1", "50")>>),
     AppAnswer(0, <<AppRow(2, "1", "50"), AppRow(2, "2", "30")>>),
     AppAnswer(0, <<AppRow(2, "2", "30"), AppRow(2, "1", "50")>>),
     AppAnswer(0, <<AppRow(1, "1", ""), AppRow(2, "2", "30")>>)}

Query(launched, compute, graphics, lookup) ==
    [launched |-> launched, compute |-> compute, graphics |-> graphics, lookup |-> lookup]

\* every query of the samples
ProcQueries ==
    {Query(l, c, g, k) : l \in BOOLEAN, c \in ComputeAnswers, g \in GraphicsAnswers,
                          k \in [PidTexts -> LookupOutcomes]}

AllFound == [t \in PidTexts |-> "ok"]

\* one compute process, and a driver without the graphics query
NominalQuery ==
    Query(TRUE, AppAnswer(0, <<AppRow(2, "1", "100")>>), AppAnswer(1, <<>>), AllFound)

\* a driver that answers the graphics query
GraphicsQuery ==
    Query(TRUE, AppAnswer(0, <<AppRow(2, "1", "100")>>),
          AppAnswer(0, <<AppRow(2, "2", "30")>>), AllFound)

(***************************************************************************)
(* Start and stop (SystemTrayApp.start_server / stop_server and            *)
(* NvidiaWebServer.start_server / stop_server).                            *)
(***************************************************************************)
\* where an update_data thread stands, as the other threads see it
Position(p) ==
    CASE p \in {"idle", "done"} -> "done"
      [] p = "while" -> "while"
      [] p = "sleeping" -> "sleeping"
      [] OTHER -> "cycle"

\* a tray that starts a server thread whatever the state of the last one
ServerStartable_Always == TRUE

\* self.server_thread is None or not self.server_thread.is_alive()
ServerStartable == server_thread # "alive"

\* Tray "Start Server": with no live server thread, a server thread is
\* started; it sets running and starts the update_data thread.  An
\* update_data thread started earlier is not looked at: it goes on in
\* older_loops, and pc follows the newest one.  With a live server thread
\* the request is logged and notified as "already running" and nothing else
\* is done.
TrayStartServer ==
    IF ServerStartable
    THEN /\ server_thread' = "alive"
         /\ running' = TRUE
         /\ older_loops' = IF Position(pc) = "done" THEN older_loops
                           ELSE Append(older_loops, Position(pc))
         /\ collector' = [collector EXCEPT !.loop = FALSE]
         /\ pc' = "while"
         /\ UNCHANGED <<update_interval, gpu_history, gpu_data, sleep_for, emitted, http,
                        clock, budget, obs>>
         /\ UNCHANGED <<registryVars, delivery, process_data, graphics_warning_logged,
                        proc, snap, build>>
    ELSE /\ budget.refusals > 0
         /\ budget' = [budget EXCEPT !.refusals = @ - 1]
         /\ UNCHANGED <<running, update_interval, gpu_history, server_thread, pc, gpu_data,
                        sleep_for, emitted, http, clock, obs>>
         /\ UNCHANGED <<older_loops, registryVars, delivery, process_data, collectorVars,
                        proc, snap, build>>

\* socketio.run raises (port 9876 taken) or returns: NvidiaWebServer.start_server
\* re-raises and the server thread ends; running and the update_data thread
\* are not touched
ServerThreadExit ==
    /\ server_thread = "alive"
    /\ budget.exits > 0
    /\ budget' = [budget EXCEPT !.exits = @ - 1]
    /\ server_thread' = "dead"
    /\ UNCHANGED <<running, update_interval, gpu_history, pc, gpu_data, sleep_for,
                   emitted, http, clock, obs>>
    /\ UNCHANGED <<older_loops, registryVars, delivery, process_data, collectorVars, proc, snap, build>>

\* a step of an update_data thread started earlier: the while test, the
\* cycle's body, the sleep
OlderLoopStep ==
    /\ \E i \in DOMAIN older_loops :
          older_loops' =
              [older_loops EXCEPT ![i] =
                  CASE @ = "while" -> IF running THEN "cycle" ELSE "done"
                    [] @ = "cycle" -> "sleeping"
                    [] @ = "sleeping" -> "while"
                    [] OTHER -> @]
    /\ older_loops' # older_loops
    /\ UNCHANGED <<running, update_interval, gpu_history, server_thread, pc, gpu_data,
                   sleep_for, emitted, http, clock, budget, obs>>
    /\ UNCHANGED <<registryVars, delivery, process_data, collectorVars, proc, snap, build>>

\* Tray "Stop Server": self.running = False
TrayStopServer ==
    /\ running' = FALSE
    /\ UNCHANGED <<update_interval, gpu_history, server_thread, pc, gpu_data, sleep_for,
                   emitted, http, clock, budget, obs>>
    /\ UNCHANGED <<older_loops, registryVars, delivery, process_data, collectorVars, proc, snap, build>>

(***************************************************************************)
(* NvidiaWebServer.update_data, one action per step of the loop.           *)
(***************************************************************************)
\* a loop that does not test the flag
LoopContinues_Always == TRUE

\* the condition of "while self.running"
LoopContinues == running

\* while self.running:
LoopWhile ==
    /\ pc = "while"
    /\ IF LoopContinues
       THEN /\ budget.cycles > 0
            /\ budget' = [budget EXCEPT !.cycles = @ - 1]
            /\ pc' = "collect"
            /\ clock' = clock + 1
            /\ obs' = [obs EXCEPT !.interval_at_start = update_interval,
                                  !.ring_at_start = gpu_history,
                                  !.prev_rc = obs.tool_rc,
                                  !.tool_rc = -1,
                                  !.prev_raised = obs.raised,
                                  !.raised = FALSE,
                                  !.wrote_in_cycle = <<>>]
       ELSE /\ pc' = "done"
            /\ UNCHANGED <<budget, clock, obs>>
    /\ UNCHANGED <<running, update_interval, gpu_history, server_thread, gpu_data,
                   sleep_for, emitted, http>>
    /\ UNCHANGED <<older_loops, registryVars, delivery, process_data, collectorVars, proc, snap, build>>

\* the tool's answers this cycle may get
ToolOutputs == {NominalOutput} \cup (IF budget.anomalies > 0 THEN AnomalousOutputs ELSE {})

\* gpu_data = self.data_collector.get_gpu_data()
LoopCollect ==
    /\ pc = "collect"
    /\ \E out \in ToolOutputs :
          /\ gpu_data' = get_gpu_data(out)
          /\ obs' = [obs EXCEPT !.tool_rc = out.rc]
          /\ budget' = [budget EXCEPT !.anomalies = IF out = NominalOutput THEN @ ELSE @ - 1]
    /\ pc' = "process"
    /\ UNCHANGED <<running, update_interval, gpu_history, server_thread, sleep_for,
                   emitted, http, clock>>
    /\ UNCHANGED <<older_loops, registryVars, delivery, process_data, collectorVars, proc, snap, build>>

\* the process queries this cycle may get
LoopQueries == {NominalQuery} \cup (IF budget.procs > 0 THEN {GraphicsQuery} ELSE {})

\* process_data = self.data_collector.get_process_data(), up to its return or
\* to the test of _graphics_warning_logged; what follows the warning reads
\* nothing another thread writes
LoopProcess ==
    /\ pc = "process"
    /\ ~collector.loop
    /\ \E q \in LoopQueries :
          /\ process_data' = get_process_data(q)
          /\ budget' = [budget EXCEPT !.procs = IF q = NominalQuery THEN @ ELSE @ - 1]
          /\ IF GraphicsQueryFailed(q) /\ ~graphics_warning_logged
             THEN /\ collector' = [collector EXCEPT !.loop = TRUE]
                  /\ pc' = "process"
             ELSE /\ pc' = "history"
                  /\ UNCHANGED collector
    /\ UNCHANGED <<running, update_interval, gpu_history, server_thread, gpu_data,
                   sleep_for, emitted, http, clock, obs>>
    /\ UNCHANGED <<older_loops, registryVars, delivery, graphics_warning_logged, proc, snap, build>>

\* logger.info("Graphics apps query not supported, ..."), then
\* self._graphics_warning_logged = True, and the call returns
LoopProcessWarn ==
    /\ pc = "process"
    /\ collector.loop
    /\ graphics_warning_logged' = TRUE
    /\ obs' = [obs EXCEPT !.graphics_logs = @ + 1]
    /\ collector' = [collector EXCEPT !.loop = FALSE]
    /\ pc' = "history"
    /\ UNCHANGED <<running, update_interval, gpu_history, server_thread, gpu_data,
                   sleep_for, emitted, http, clock, budget>>
    /\ UNCHANGED <<older_loops, registryVars, delivery, process_data, proc, snap, build>>

\* an append made field by field: what converts is stored, the rest is left
\* out (-1), and the point is appended all the same
HistoryPoint_Partial(snapshot, now) ==
    LET t == Float(snapshot.temperature)
        p == Float(snapshot.power_draw)
    IN [ok |-> TRUE,
        point |-> [timestamp |-> now,
                   temperature |-> IF t.ok THEN t.v ELSE -1,
                   power |-> IF p.ok THEN p.v ELSE -1]]

\* the dict appended to gpu_history: ok = FALSE when a float() raises
HistoryPoint(snapshot, now) ==
    LET t == Float(snapshot.temperature)
        p == Float(snapshot.power_draw)
    IN [ok |-> t.ok /\ p.ok,
        point |-> [timestamp |-> now, temperature |-> t.v, power |-> p.v]]

\* a loop without the try/except: the exception ends update_data
AfterException_Propagates == "done"

\* except Exception as e: logger.error(...), then the statement after the
\* try, time.sleep
AfterException == "sleep"

\* if gpu_data: self.gpu_history.append({...}); a ValueError goes to the
\* except clause, which logs and falls through to the sleep
LoopHistory ==
    /\ pc = "history"
    /\ IF gpu_data = <<>>
       THEN /\ pc' = "emit"
            /\ UNCHANGED <<gpu_history, obs>>
       ELSE LET h == HistoryPoint(gpu_data[1], clock)
            IN IF h.ok
               THEN /\ gpu_history' = DequeAppend(gpu_history, h.point)
                    /\ obs' = [obs EXCEPT !.pushes = Append(@, h.point)]
                    /\ pc' = "emit"
               ELSE /\ pc' = AfterException
                    /\ obs' = [obs EXCEPT !.raised = TRUE]
                    /\ UNCHANGED gpu_history
    /\ UNCHANGED <<running, update_interval, server_thread, gpu_data, sleep_for,
                   emitted, http, clock, budget>>
    /\ UNCHANGED <<older_loops, registryVars, delivery, process_data, collectorVars, proc, snap, build>>

\* the payload of socketio.emit('gpu_update', {...})
\* a payload whose history was copied before this cycle's append
Payload_StaleHistory ==
    [gpu_info |-> gpu_data, processes |-> process_data, history |-> obs.ring_at_start,
     timestamp |-> clock, client_count |-> connected_clients]

Payload ==
    [gpu_info |-> gpu_data, processes |-> process_data, history |-> gpu_history,
     timestamp |-> clock, client_count |-> connected_clients]

\* self.socketio.emit('gpu_update', {...}): the payload goes to the clients
\* that hold a session; delivery to some of them may fail, and the call then
\* returns or raises into the except clause.  Neither way touches
\* connected_clients.
LoopEmit ==
    /\ pc = "emit"
    /\ emitted' = Payload
    /\ \E failed \in SUBSET sessions :
       \E raises \in (IF failed = {} THEN {FALSE} ELSE BOOLEAN) :
          /\ delivery' = [to |-> sessions \ failed, failed |-> failed, raised |-> raises,
                          count |-> connected_clients, timestamp |-> clock]
          /\ obs' = [obs EXCEPT !.raised = raises]
          /\ pc' = IF raises THEN AfterException ELSE "sleep"
    /\ UNCHANGED <<running, update_interval, gpu_history, server_thread, gpu_data,
                   sleep_for, http, clock, budget>>
    /\ UNCHANGED <<older_loops, registryVars, process_data, collectorVars, proc, snap, build>>

\* the interval read once at the top of the cycle and slept on at its end
SleepArgument_AtCycleStart == obs.interval_at_start

\* the value time.sleep is called with
SleepArgument == update_interval

\* time.sleep(self.update_interval): the argument is evaluated, the sleep begins
LoopSleep ==
    /\ pc = "sleep"
    /\ sleep_for' = SleepArgument
    /\ pc' = "sleeping"
    /\ UNCHANGED <<running, update_interval, gpu_history, server_thread, gpu_data,
                   emitted, http, clock, budget, obs>>
    /\ UNCHANGED <<older_loops, registryVars, delivery, process_data, collectorVars, proc, snap, build>>

\* the sleep ends
LoopWake ==
    /\ pc = "sleeping"
    /\ pc' = "while"
    /\ UNCHANGED <<running, update_interval, gpu_history, server_thread, gpu_data,
                   sleep_for, emitted, http, clock, budget, obs>>
    /\ UNCHANGED <<older_loops, registryVars, delivery, process_data, collectorVars, proc, snap, build>>

LoopNext ==
    \/ LoopWhile
    \/ LoopCollect
    \/ LoopProcess
    \/ LoopProcessWarn
    \/ LoopHistory
    \/ LoopEmit
    \/ LoopSleep
    \/ LoopWake

(***************************************************************************)
(* GET /api/gpu_data (NvidiaWebServer.setup_routes.get_gpu_data), on a     *)
(* request thread, and a call of get_process_data on its own.              *)
(***************************************************************************)
ApiQueries == {NominalQuery, GraphicsQuery}

\* the route up to its return or, inside get_process_data, up to the test of
\* _graphics_warning_logged
ApiGpuData ==
    /\ budget.gets > 0
    /\ ~collector.api
    /\ \E q \in ApiQueries :
          /\ http' = [NoRequest EXCEPT
                         !.op = "gpu_data",
                         !.result = [kind |-> "gpu_data",
                                     gpu_info |-> get_gpu_data(NominalOutput),
                                     processes |-> get_process_data(q)],
                         !.before = update_interval,
                         !.after = update_interval]
          /\ collector' = [collector EXCEPT
                              !.api = GraphicsQueryFailed(q) /\ ~graphics_warning_logged]
    /\ budget' = [budget EXCEPT !.gets = @ - 1]
    /\ UNCHANGED <<running, update_interval, gpu_history, server_thread, pc, gpu_data,
                   sleep_for, emitted, clock, obs>>
    /\ UNCHANGED <<older_loops, registryVars, delivery, process_data,
                   graphics_warning_logged, proc, snap, build>>

\* the request thread logs the warning and sets the flag
ApiGpuDataWarn ==
    /\ collector.api
    /\ graphics_warning_logged' = TRUE
    /\ obs' = [obs EXCEPT !.graphics_logs = @ + 1]
    /\ collector' = [collector EXCEPT !.api = FALSE]
    /\ UNCHANGED <<running, update_interval, gpu_history, server_thread, pc, gpu_data,
                   sleep_for, emitted, http, clock, budget>>
    /\ UNCHANGED <<older_loops, registryVars, delivery, process_data, proc, snap, build>>

\* one call of get_process_data with the query proc.q, from entry to return
GetProcessData ==
    /\ ~proc.called
    /\ proc' = [proc EXCEPT
                   !.called = TRUE,
                   !.merged = IF proc.q.launched THEN nvidia_processes(proc.q) ELSE <<>>,
                   !.rows = get_process_data(proc.q)]
    /\ graphics_warning_logged' = (graphics_warning_logged \/ GraphicsQueryFailed(proc.q))
    /\ obs' = [obs EXCEPT
                  !.graphics_logs =
                      IF GraphicsQueryFailed(proc.q) /\ ~graphics_warning_logged
                      THEN @ + 1 ELSE @]
    /\ UNCHANGED <<running, update_interval, gpu_history, server_thread, pc, gpu_data,
                   sleep_for, emitted, http, clock, budget>>
    /\ UNCHANGED <<older_loops, registryVars, delivery, process_data, collector, snap, build>>

\* one call of get_gpu_data with the answers snap.out, from entry to return
GetGpuData ==
    /\ ~snap.called
    /\ snap' = [snap EXCEPT !.called = TRUE,
                            !.raised = GpuCall(snap.out).raised,
                            !.value = GpuCall(snap.out).value]
    /\ UNCHANGED <<running, update_interval, gpu_history, server_thread, pc, gpu_data,
                   sleep_for, emitted, http, clock, budget, obs>>
    /\ UNCHANGED <<older_loops, registryVars, delivery, process_data, collectorVars, proc,
                   build>>

(***************************************************************************)
(* The connect and disconnect handlers (NvidiaWebServer.setup_socketio).   *)
(* Each runs on the thread of its client's transport session; the          *)
(* statement that changes connected_clients reads the attribute and then   *)
(* writes it.                                                              *)
(***************************************************************************)
Clients == 1..MaxClients

NoHandler == [op |-> "none", tmp |-> 0]

\* a disconnect that lowers the count without the floor of 0
Max_NoFloor(a, b) == b

\* max(a, b)
Max(a, b) == IF a >= b THEN a ELSE b

\* what the handlers leave alone
HandlerFrame ==
    /\ UNCHANGED <<running, update_interval, gpu_history, server_thread, pc, gpu_data,
                   sleep_for, emitted, http, clock, obs>>
    /\ UNCHANGED <<older_loops, delivery, process_data, collectorVars, proc, snap, build>>

\* the transport opens a client's session and calls handle_connect, which
\* reads self.connected_clients
ConnectBegin ==
    /\ ~HandlerBlocked
    /\ budget.events > 0
    /\ \E c \in Clients :
          /\ c \notin sessions
          /\ handler[c].op = "none"
          /\ sessions' = sessions \cup {c}
          /\ handler' = [handler EXCEPT ![c] = [op |-> "connect", tmp |-> connected_clients]]
    /\ budget' = [budget EXCEPT !.events = @ - 1]
    /\ UNCHANGED connected_clients
    /\ HandlerFrame

\* self.connected_clients = <the value read> + 1
ConnectEnd ==
    /\ ~HandlerBlocked
    /\ \E c \in Clients :
          /\ handler[c].op = "connect"
          /\ connected_clients' = handler[c].tmp + 1
          /\ handler' = [handler EXCEPT ![c] = NoHandler]
    /\ UNCHANGED <<sessions, budget>>
    /\ HandlerFrame

\* the transport closes a client's session and calls handle_disconnect, which
\* reads self.connected_clients
DisconnectBegin ==
    /\ ~HandlerBlocked
    /\ budget.events > 0
    /\ \E c \in Clients :
          /\ c \in sessions
          /\ handler[c].op = "none"
          /\ sessions' = sessions \ {c}
          /\ handler' = [handler EXCEPT ![c] = [op |-> "disconnect", tmp |-> connected_clients]]
    /\ budget' = [budget EXCEPT !.events = @ - 1]
    /\ UNCHANGED connected_clients
    /\ HandlerFrame

\* self.connected_clients = max(0, <the value read> - 1)
DisconnectEnd ==
    /\ ~HandlerBlocked
    /\ \E c \in Clients :
          /\ handler[c].op = "disconnect"
          /\ connected_clients' = Max(0, handler[c].tmp - 1)
          /\ handler' = [handler EXCEPT ![c] = NoHandler]
    /\ UNCHANGED <<sessions, budget>>
    /\ HandlerFrame

ClientNext == ConnectBegin \/ ConnectEnd \/ DisconnectBegin \/ DisconnectEnd

(***************************************************************************)
(* The build script (compile_rtxss.py): main and the steps it calls.  A    *)
(* step's result is the text of its return value ("True", "False", "None", *)
(* "path") or the name of the exception that leaves it.                    *)
(***************************************************************************)
\* how the running-process check goes: no rtxss process found, processes
\* found and the user answers y (they are terminated) or something else,
\* psutil missing, another exception (caught, "continue anyway"), Ctrl-C at
\* the prompt
RunningOutcomes == {"none", "killed", "declined", "ImportError", "Exception",
                    "KeyboardInterrupt"}

check_running_processes(o) ==
    CASE o = "declined" -> "False"
      [] o = "KeyboardInterrupt" -> "KeyboardInterrupt"
      [] OTHER -> "True"

\* the dependency check: both present, Python older than 3.8, pip missing
DepOutcomes == {"ok", "python", "pip"}

check_dependencies(o) == IF o = "ok" THEN "True" ELSE "False"

\* the installation: every package installs (at = 0), or the at-th install
\* ends with exc
NoInstallFailure == [at |-> 0, exc |-> ""]
InstallOutcomes ==
    {NoInstallFailure} \cup
    {[at |-> k, exc |-> e] : k \in 1..BuildDepCount,
                            e \in {"CalledProcessError", "KeyboardInterrupt"}}

\* install_build_dependencies: the result and the number of installs begun;
\* "except Exception" returns False, a KeyboardInterrupt leaves the function
install_build_dependencies(o) ==
    [result |-> CASE o.at = 0 -> "True"
                  [] o.exc = "KeyboardInterrupt" -> "KeyboardInterrupt"
                  [] OTHER -> "False",
     installs |-> IF o.at = 0 THEN BuildDepCount ELSE o.at]

\* the compilation: the patched script, icon or spec file cannot be written
\* (outside the try), PyInstaller fails, PyInstaller ends but dist/rtxss.exe
\* is missing, the executable is there, Ctrl-C
CompileOutcomes == {"patch_raises", "pyinstaller_fails", "no_exe", "exe",
                    "KeyboardInterrupt"}

compile_executable(o) ==
    CASE o = "exe" -> "path"
      [] o \in {"pyinstaller_fails", "no_exe"} -> "None"
      [] o = "patch_raises" -> "Exception"
      [] OTHER -> "KeyboardInterrupt"

\* the clean-up prompt: y (the build files are removed), another answer,
\* end of input, Ctrl-C, or y and a removal that raises
CleanupOutcomes == {"y", "n", "EOFError", "KeyboardInterrupt", "cleanup_raises"}

StepOrder ==
    <<"check_running_processes", "check_dependencies", "install_build_dependencies",
      "compile_executable">>

Raises(result) == result \in {"Exception", "KeyboardInterrupt"}
Truthy(result) == result \in {"True", "path"}

\* a main that goes on after a failed dependency check
Passed_SkipDependencyCheck(step, result) == step = "check_dependencies" \/ Truthy(result)

\* "if not step(): return 1" lets main go on
Passed(step, result) == Truthy(result)

BuildEnvs ==
    [script : BOOLEAN, running : RunningOutcomes, deps : DepOutcomes,
     install : InstallOutcomes, compile : CompileOutcomes, cleanup : CleanupOutcomes]

NoBuild ==
    [env |-> [script |-> TRUE, running |-> "none", deps |-> "ok",
              install |-> NoInstallFailure, compile |-> "exe", cleanup |-> "n"],
     pc |-> "start", steps |-> <<>>, results |-> <<>>, installs |-> 0,
     cleaned |-> FALSE, exit |-> -1]

\* main after the call of step has ended with result: an exception reaches
\* main's except clauses and a falsy result its "return 1"; otherwise main
\* goes on to next
Ran(b, step, result, next) ==
    LET on == ~Raises(result) /\ Passed(step, result)
    IN [b EXCEPT !.steps = Append(@, step),
                 !.results = Append(@, result),
                 !.pc = IF on THEN next ELSE "returned",
                 !.exit = IF on THEN @ ELSE 1]

\* what the build script leaves alone
BuildFrame ==
    /\ UNCHANGED <<running, update_interval, gpu_history, server_thread, pc, gpu_data,
                   sleep_for, emitted, http, clock, budget, obs>>
    /\ UNCHANGED <<older_loops, registryVars, delivery, process_data, collectorVars, proc,
                   snap>>

\* the banner and the test that rtxss.py exists
MainBegin ==
    /\ build.pc = "start"
    /\ build' = IF build.env.script
                THEN [build EXCEPT !.pc = "check_running_processes"]
                ELSE [build EXCEPT !.pc = "returned", !.exit = 1]
    /\ BuildFrame

\* Step 1
CheckRunningProcesses ==
    /\ build.pc = "check_running_processes"
    /\ build' = Ran(build, "check_running_processes",
                    check_running_processes(build.env.running), "check_dependencies")
    /\ BuildFrame

\* Step 2
CheckDependencies ==
    /\ build.pc = "check_dependencies"
    /\ build' = Ran(build, "check_dependencies", check_dependencies(build.env.deps),
                    "install_build_dependencies")
    /\ BuildFrame

\* Step 3
InstallBuildDependencies ==
    /\ build.pc = "install_build_dependencies"
    /\ LET r == install_build_dependencies(build.env.install)
       IN build' = [Ran(build, "install_build_dependencies", r.result, "compile_executable")
                       EXCEPT !.installs = r.installs]
    /\ BuildFrame

\* Step 4
CompileExecutable ==
    /\ build.pc = "compile_executable"
    /\ build' = Ran(build, "compile_executable", compile_executable(build.env.compile),
                    "finish")
    /\ BuildFrame

\* Step 5: the success message, the clean-up prompt, return 0; an exception
\* at the prompt or in the clean-up goes to main's except clauses
MainFinish ==
    /\ build.pc = "finish"
    /\ build' = [build EXCEPT
                    !.pc = "returned",
                    !.cleaned = build.env.cleanup = "y",
                    !.exit = IF build.env.cleanup \in {"y", "n"} THEN 0 ELSE 1]
    /\ BuildFrame

(***************************************************************************)
(* Specifications.                                                         *)
(***************************************************************************)
NoPayload ==
    [gpu_info |-> <<>>, processes |-> <<>>, history |-> <<>>, timestamp |-> 0,
     client_count |-> 0]

NoDelivery == [to |-> {}, failed |-> {}, raised |-> FALSE, count |-> 0, timestamp |-> 0]

NoProc == [q |-> NominalQuery, called |-> FALSE, merged |-> <<>>, rows |-> <<>>]

NoSnap == [out |-> NominalOutput, called |-> FALSE, raised |-> "", value |-> <<>>]

NoBudget ==
    [cycles |-> 0, anomalies |-> 0, requests |-> 0, exits |-> 0, events |-> 0,
     gets |-> 0, procs |-> 0, refusals |-> 0]

InitObs ==
    [accepted |-> <<>>, interval_at_start |-> InitialInterval, ring_at_start |-> <<>>,
     tool_rc |-> -1, prev_rc |-> -1, raised |-> FALSE, prev_raised |-> FALSE, wrote_in_cycle |-> <<>>,
     pushes |-> <<>>, graphics_logs |-> 0]

\* the state after SystemTrayApp() is constructed
InitServer ==
    /\ running = FALSE
    /\ update_interval = InitialInterval
    /\ gpu_history = <<>>
    /\ server_thread = "none"
    /\ pc = "idle"
    /\ gpu_data = <<>>
    /\ sleep_for = InitialInterval
    /\ emitted = NoPayload
    /\ http = NoRequest
    /\ clock = 0
    /\ obs = InitObs
    /\ older_loops = <<>>
    /\ connected_clients = 0
    /\ sessions = {}
    /\ handler = [c \in Clients |-> NoHandler]
    /\ delivery = NoDelivery
    /\ process_data = <<>>
    /\ graphics_warning_logged = FALSE
    /\ collector = [loop |-> FALSE, api |-> FALSE]

InitProgram ==
    /\ InitServer
    /\ proc = NoProc
    /\ snap = NoSnap
    /\ build = NoBuild

Init ==
    /\ InitProgram
    /\ budget = [NoBudget EXCEPT !.cycles = MaxCycles, !.anomalies = MaxAnomalies,
                                 !.requests = MaxRequests]

Next ==
    \/ TrayStartServer
    \/ TrayStopServer
    \/ SetUpdateInterval
    \/ LoopNext

\* the loop beside the interval endpoint and the tray, for a few cycles
Spec == Init /\ [][Next]_vars

InitControl ==
    /\ InitProgram
    /\ budget = [NoBudget EXCEPT !.requests = MaxControlRequests]

NextControl == SetPowerLimit \/ SetUpdateInterval

\* the two control endpoints, which share nothing but the request layer
SpecControl == InitControl /\ [][NextControl]_vars

InitRing ==
    /\ InitProgram
    /\ budget = [NoBudget EXCEPT !.cycles = MaxRingCycles, !.anomalies = MaxRingAnomalies]

NextRing == TrayStartServer \/ LoopNext

\* the loop alone, for more cycles than the history deque holds
SpecRing == InitRing /\ [][NextRing]_vars

InitTray ==
    /\ InitProgram
    /\ budget = [NoBudget EXCEPT !.cycles = MaxShortCycles, !.exits = MaxExits,
                                 !.refusals = MaxRefusedStarts]

NextTray ==
    \/ TrayStartServer
    \/ TrayStopServer
    \/ ServerThreadExit
    \/ OlderLoopStep
    \/ LoopNext

\* the tray's start and stop beside a server thread that may end
SpecTray == InitTray /\ [][NextTray]_vars

InitStop ==
    /\ InitProgram
    /\ budget = [NoBudget EXCEPT !.cycles = MaxCycles, !.anomalies = MaxAnomalies]

NextStop == TrayStartServer \/ TrayStopServer \/ LoopNext

\* the loop and the tray; the update_data thread is scheduled and its tool
\* calls and sleeps return, so a step of the loop that can be taken is taken
SpecStop == InitStop /\ [][NextStop]_vars /\ WF_vars(LoopNext)

InitClients ==
    /\ InitProgram
    /\ budget = [NoBudget EXCEPT !.cycles = MaxShortCycles, !.events = MaxEvents]

NextClients == TrayStartServer \/ LoopNext \/ ClientNext

\* the loop beside the clients' connect and disconnect handlers
SpecClients == InitClients /\ [][NextClients]_vars

InitWarn ==
    /\ InitProgram
    /\ budget = [NoBudget EXCEPT !.cycles = MaxWarnCycles, !.gets = MaxGets,
                                 !.procs = MaxProcs]

NextWarn == TrayStartServer \/ LoopNext \/ ApiGpuData \/ ApiGpuDataWarn

\* the loop beside /api/gpu_data requests, which share the collector
SpecWarn == InitWarn /\ [][NextWarn]_vars

InitProc ==
    /\ InitServer
    /\ snap = NoSnap
    /\ build = NoBuild
    /\ budget = NoBudget
    /\ proc \in {[NoProc EXCEPT !.q = q] : q \in ProcQueries}

NextProc == GetProcessData

\* get_process_data applied to every query of the samples
SpecProc == InitProc /\ [][NextProc]_vars

InitLive ==
    /\ InitProgram
    /\ budget = [NoBudget EXCEPT !.cycles = MaxLiveCycles, !.anomalies = MaxLiveAnomalies,
                                 !.events = MaxLiveEvents]

NextLive == TrayStartServer \/ LoopNext \/ ConnectBegin \/ ConnectEnd

\* the loop, never stopped, beside clients whose delivery may fail; the
\* update_data thread is scheduled and its calls return
SpecLive == InitLive /\ [][NextLive]_vars /\ WF_vars(LoopNext)

InitHung ==
    /\ InitProgram
    /\ budget = [NoBudget EXCEPT !.cycles = MaxShortCycles, !.requests = MaxHungRequests,
                                 !.events = MaxHungEvents]

NextHung == TrayStartServer \/ LoopWhile \/ SetUpdateInterval \/ ClientNext

\* the handlers beside a loop whose first tool call never returns: the loop
\* enters get_gpu_data and takes no further step; the handler threads are
\* scheduled
SpecHung ==
    InitHung /\ [][NextHung]_vars /\ WF_vars(ConnectEnd) /\ WF_vars(DisconnectEnd)

\* the calls are shared out between the three kinds of entry point in
\* every way
InitFrame ==
    /\ InitProgram
    /\ \E r \in 0..MaxFrameCalls : \E g \in 0..(MaxFrameCalls - r) :
          budget = [NoBudget EXCEPT !.cycles = MaxShortCycles, !.requests = r,
                                    !.gets = g, !.events = MaxFrameCalls - r - g]

NextFrame ==
    \/ TrayStartServer
    \/ LoopNext
    \/ SetPowerLimit
    \/ SetUpdateInterval
    \/ ApiGpuData
    \/ ApiGpuDataWarn
    \/ ClientNext

\* the loop beside every entry point of the request layer
SpecFrame == InitFrame /\ [][NextFrame]_vars

InitBuild ==
    /\ InitServer
    /\ proc = NoProc
    /\ snap = NoSnap
    /\ budget = NoBudget
    /\ build \in {[NoBuild EXCEPT !.env = e] : e \in BuildEnvs}

NextBuild ==
    \/ MainBegin
    \/ CheckRunningProcesses
    \/ CheckDependencies
    \/ InstallBuildDependencies
    \/ CompileExecutable
    \/ MainFinish

\* main of the build script in every environment of the samples
SpecBuild == InitBuild /\ [][NextBuild]_vars

InitGpu ==
    /\ InitServer
    /\ proc = NoProc
    /\ build = NoBuild
    /\ budget = NoBudget
    /\ snap \in {[NoSnap EXCEPT !.out = out] : out \in GpuOutputs}

NextGpu == GetGpuData

\* get_gpu_data applied to every answer of the samples
SpecGpu == InitGpu /\ [][NextGpu]_vars

(***************************************************************************)
(* Properties.                                                             *)
(***************************************************************************)
\* the last request was set_power_limit with the integer wattage w
PowerRequestOf(w) ==
    /\ http.op = "set_power"
    /\ http.body = Body(JInt(w))

\* the last request was set_update_interval with the integer interval i
IntervalRequestOf(i) ==
    /\ http.op = "set_update_interval"
    /\ http.body = Body(JInt(i))

Rejected(result) == result.kind = "json" /\ result.success = FALSE
Succeeded(result) == result.kind = "json" /\ result.success = TRUE

\* the duration d is i / 1000 seconds
IsMs(d, i) == d.frac \in 0..999 /\ 1000 * d.s + d.frac = i

Last(q) == q[Len(q)]

\* a <= b on durations
SecondsLeq(a, b) == a.s < b.s \/ (a.s = b.s /\ a.frac <= b.frac)

\* C1: for every wattage w outside [400,600], set_power_limit(w) issues no
\* power-limit command and returns a rejection (success = false).
C1_OutOfRangeRejected ==
    \A w \in WattageSamples \ (400..600) :
        PowerRequestOf(w) => http.cmds = <<>> /\ Rejected(http.result)

C1_Witness ==
    /\ PowerRequestOf(601)
    /\ http.cmds = <<>>
    /\ Rejected(http.result)

\* C2: for every wattage w in [400,600], set_power_limit(w) issues exactly one
\* power-limit command, carrying w, and returns success unless the command
\* fails.
C2_InRangeOneCommand ==
    \A w \in WattageSamples \cap (400..600) :
        PowerRequestOf(w) =>
            /\ http.cmds = <<w>>
            /\ (http.outcome = "ok" => Succeeded(http.result))

C2_Witness ==
    /\ PowerRequestOf(600)
    /\ http.outcome = "ok"
    /\ http.cmds = <<600>>
    /\ Succeeded(http.result)

\* C3: when set_power_limit is called with an accepted wattage and the
\* power-limit command exits non-zero, the view returns a failure result
\* (success = false, the message carrying the tool's error text); it never
\* ends without a result.
C3_NonZeroExitIsFailureResult ==
    \A w \in WattageSamples \cap (400..600) :
        (PowerRequestOf(w) /\ http.outcome = "nonzero") =>
            /\ Rejected(http.result)
            /\ http.result.text = "Failed to set power limit - {e}"

\* C4: after set_update_interval(i) is accepted, every sleep of the loop that
\* begins after the write lasts i / 1000 seconds (until another accepted
\* write), and a sleep in progress keeps the duration it began with.
C4_NextSleepUsesInterval ==
    /\ [][(pc = "sleep" /\ pc' = "sleeping" /\ obs.accepted # <<>>)
            => IsMs(sleep_for', Last(obs.accepted))]_vars
    /\ [][(pc = "sleeping" /\ pc' = "sleeping") => sleep_for' = sleep_for]_vars

\* a sleep of 0.1 s (begun after 100 ms was accepted) during which 10000 ms
\* was accepted
C4_Witness ==
    /\ pc = "sleeping"
    /\ obs.accepted = <<100, 10000>>
    /\ IsMs(sleep_for, 100)
    /\ IsMs(update_interval, 10000)

\* C5, as stated: the interval a cycle sleeps for is the value that was
\* current when the cycle began, so a write accepted while the cycle is
\* collecting or broadcasting is first used by the following cycle.
C5_SleepUsesIntervalAtCycleStart ==
    pc = "sleeping" => sleep_for = obs.interval_at_start

\* C5, amended: the interval a cycle sleeps for is the value current when its
\* sleep begins, so a write accepted after the cycle began and before its
\* sleep (while it collects or broadcasts) is used by that same cycle's sleep.
C5_SleepUsesIntervalAtSleep ==
    (pc = "sleeping" /\ obs.wrote_in_cycle # <<>>)
        => IsMs(sleep_for, Last(obs.wrote_in_cycle))

C5_Witness ==
    /\ pc = "sleeping"
    /\ obs.wrote_in_cycle = <<100>>
    /\ obs.interval_at_start = InitialInterval
    /\ IsMs(sleep_for, 100)

\* C6: set_update_interval changes update_interval only when it returns
\* success: a request whose interval is outside [100,10000] or whose body is
\* malformed gets a failure result and leaves update_interval as it was.
C6_RejectionLeavesInterval ==
    /\ (http.op = "set_update_interval" /\ ~Succeeded(http.result))
          => http.after = http.before
    /\ (http.op = "set_update_interval"
          /\ http.body \in {Body(JInt(i)) : i \in IntervalSamples \ (100..10000)}
                            \cup {Body(JStr("abc")), NoJson})
          => Rejected(http.result) /\ http.after = http.before

\* a rejection that follows an accepted write
C6_Witness ==
    /\ IntervalRequestOf(10001)
    /\ Rejected(http.result)
    /\ obs.accepted = <<100>>
    /\ IsMs(update_interval, 100)

\* C7: update_interval always lies in [0.1, 10.0] seconds, and every value
\* the loop sleeps on is the initial 1.0 or i / 1000 for an accepted request i.
C7_IntervalBounded ==
    /\ SecondsLeq([s |-> 0, frac |-> 100], update_interval)
    /\ SecondsLeq(update_interval, [s |-> 10, frac |-> 0])
    /\ \/ sleep_for = [s |-> 1, frac |-> 0]
       \/ \E k \in 1..Len(obs.accepted) :
             /\ obs.accepted[k] \in 100..10000
             /\ IsMs(sleep_for, obs.accepted[k])

C7_Witness ==
    /\ pc = "sleeping"
    /\ IsMs(sleep_for, 10000)
    /\ IsMs(update_interval, 100)

\* C8: the history deque never holds more than 60 points.
C8_HistoryAtMost60 == Len(gpu_history) <= 60

C8_Witness == Len(gpu_history) = 60 /\ Len(obs.pushes) = 61

\* C9: eviction is first in, first out: after n pushes the deque holds the
\* last min(n,60) pushed points in push order; after 61 pushes the first
\* pushed point is gone and the other 60 keep their order.
C9_HistoryIsLastPushes ==
    LET n == Len(obs.pushes)
        k == IF n < 60 THEN n ELSE 60
    IN /\ gpu_history = SubSeq(obs.pushes, n - k + 1, n)
       /\ n = 61 => /\ \A j \in 1..Len(gpu_history) : gpu_history[j] # obs.pushes[1]
                    /\ gpu_history = Tail(obs.pushes)

C9_Witness ==
    /\ Len(obs.pushes) = 61
    /\ Len(gpu_history) = 60
    /\ gpu_history[1] = obs.pushes[2]
    /\ gpu_history[60] = obs.pushes[61]

\* C10: if the tool fails during a cycle, the loop does not end, that cycle's
\* broadcast carries an empty gpu_info and the cycle leaves the history as it
\* was, and the next cycle in which the tool succeeds collects and broadcasts.
C10_FailedCycleThenRecovery ==
    /\ pc = "done" => ~running
    /\ (obs.tool_rc = 1 /\ pc \in {"sleep", "sleeping"})
          => /\ emitted.timestamp = clock
             /\ emitted.gpu_info = <<>>
             /\ gpu_history = obs.ring_at_start
    /\ (obs.prev_rc = 1 /\ obs.tool_rc = 0 /\ pc \in {"sleep", "sleeping"})
          => /\ emitted.timestamp = clock
             /\ emitted.gpu_info = gpu_data

\* C11: a field that does not parse as a number does not abort the cycle: for
\* every text the tool returns for GPU 0's temperature or power_draw, the
\* cycle still composes a payload with the collected snapshots and emits it.
C11_ParseFailureStillBroadcasts ==
    (obs.tool_rc = 0 /\ pc \in {"sleep", "sleeping"})
        => /\ emitted.timestamp = clock
           /\ emitted.gpu_info = gpu_data

\* the update_data threads that have not returned
AliveLoops ==
    (IF Position(pc) = "done" THEN 0 ELSE 1)
        + Cardinality({i \in DOMAIN older_loops : older_loops[i] # "done"})

\* C12: at most one poll-and-broadcast loop is alive at any time: whatever the
\* tray's Start Server / Stop Server requests and the server thread's exits,
\* no state has two update_data threads running.
C12_AtMostOneLoop == AliveLoops <= 1

\* C13: once stop_server has set running to false (and no start follows), the
\* loop begins no new cycle, emits at most one further broadcast (the one of
\* the cycle the stop fell into), and the update_data thread terminates.
C13_StopEndsLoop ==
    /\ [][~running => ~(pc = "while" /\ pc' = "collect")]_vars
    /\ [][(~running /\ pc = "emit" /\ pc' = "sleep") => emitted.timestamp # clock]_vars
    /\ ((server_thread = "alive" /\ ~running) ~> (pc = "done"))

\* the loop was stopped in its second cycle or later and has returned
C13_Witness ==
    /\ pc = "done"
    /\ server_thread = "alive"
    /\ ~running
    /\ clock >= 2
    /\ emitted.timestamp = clock

\* no connect or disconnect handler is running
Quiescent == \A c \in Clients : handler[c].op = "none"

\* C14: under every interleaving of the connect and disconnect handlers with
\* each other and with a broadcast, the subscriber count equals the number of
\* connected clients once the handlers have returned: no increment or
\* decrement is lost.
C14_CountEqualsConnected == Quiescent => connected_clients = Cardinality(sessions)

\* C15: a disconnect of one connected subscriber, also while a broadcast is
\* under way, lowers the count by exactly one, and the broadcast still
\* reaches every other subscriber.
C15_DisconnectLowersByOne ==
    [][/\ \A c \in Clients :
             (handler[c].op = "disconnect" /\ handler'[c].op = "none")
                 => connected_clients' = connected_clients - 1
       /\ (pc = "emit" /\ pc' = "sleep" /\ delivery'.failed = {})
             => delivery'.to = sessions]_vars

\* C16: when delivery to a subscriber fails during a broadcast, the loop goes
\* on to its sleep and the broadcast step drops that subscriber: the count
\* goes down by one for each failed delivery.
C16_FailedDeliveryDropsSubscriber ==
    [][(pc = "emit" /\ pc' # "emit" /\ delivery'.failed # {})
          => /\ pc' = "sleep"
             /\ connected_clients' = connected_clients - Cardinality(delivery'.failed)]_vars

\* the pids a query's answer reports
ReportedBy(a) ==
    IF a.rc = 0
    THEN {a.rows[i].pid : i \in {j \in DOMAIN a.rows : a.rows[j].nfields >= 2}}
    ELSE {}

\* the memory texts a query's answer gives for a pid
MemoriesIn(a, pid) ==
    {a.rows[i].memory : i \in {j \in DOMAIN a.rows : a.rows[j].nfields >= 2
                                                    /\ a.rows[j].pid = pid}}

Reported(q) == ReportedBy(q.compute) \cup ReportedBy(q.graphics)

DictKeys(d) == {d[i].key : i \in DOMAIN d}
DictGet(d, k) == d[CHOOSE i \in DOMAIN d : d[i].key = k].value

\* the pid text a returned row stands for
RowPidText(row) ==
    IF row.pid.kind = "str" THEN row.pid.s
    ELSE CASE row.pid.n = 1 -> "1"
           [] row.pid.n = 2 -> "2"
           [] OTHER -> ""

RowsOf(rows, pid) == {i \in DOMAIN rows : RowPidText(rows[i]) = pid}

\* C18: get_process_data merges the two queries by pid, the compute entry
\* taking precedence: a pid both report keeps the compute memory, a pid only
\* graphics reports is kept with its graphics memory, and the result has
\* exactly one record per distinct pid.
C18_MergeComputeFirst ==
    (proc.called /\ proc.q.launched) =>
        LET c == proc.q.compute
            g == proc.q.graphics
        IN /\ DictKeys(proc.merged) = Reported(proc.q)
           /\ Len(proc.merged) = Cardinality(Reported(proc.q))
           /\ \A pid \in ReportedBy(c) : DictGet(proc.merged, pid) \in MemoriesIn(c, pid)
           /\ \A pid \in ReportedBy(g) \ ReportedBy(c) :
                 DictGet(proc.merged, pid) \in MemoriesIn(g, pid)
           /\ Len(proc.rows) = Cardinality(Reported(proc.q))
           /\ \A pid \in Reported(proc.q) : Cardinality(RowsOf(proc.rows, pid)) = 1

\* compute reported {1: 100} and graphics {1: 50, 2: 30}
C18_Witness ==
    /\ proc.called
    /\ proc.q.launched
    /\ proc.q.compute = AppAnswer(0, <<AppRow(2, "1", "100")>>)
    /\ proc.q.graphics = AppAnswer(0, <<AppRow(2, "1", "50"), AppRow(2, "2", "30")>>)
    /\ proc.merged = <<[key |-> "1", value |-> "100"], [key |-> "2", value |-> "30"]>>
    /\ Len(proc.rows) = 2

DegradedRow(pid) == [pid |-> JStr(pid), name |-> "Unknown", memory_percent |-> "N/A"]

\* C19: every pid the queries report has exactly one row in the result
\* whatever its lookup came to: the row psutil filled when the lookup
\* succeeded, the degraded row ('Unknown', 'N/A') when the pid is gone or
\* access is denied; a failed lookup removes no other pid's row.
C19_OneRowPerPid ==
    (proc.called /\ proc.q.launched) =>
        \A pid \in Reported(proc.q) :
            \E i \in DOMAIN proc.rows :
               /\ RowsOf(proc.rows, pid) = {i}
               /\ IF PidInt(pid).ok /\ proc.q.lookup[pid] = "ok"
                  THEN /\ proc.rows[i].pid = JInt(PidInt(pid).n)
                       /\ proc.rows[i].name # "Unknown"
                       /\ proc.rows[i].memory_percent # "N/A"
                  ELSE proc.rows[i] = DegradedRow(pid)

\* pid 1 is gone, pid 2 is found: two rows, the first degraded
C19_Witness ==
    /\ proc.called
    /\ proc.q.launched
    /\ Reported(proc.q) = {"1", "2"}
    /\ proc.q.lookup["1"] = "NoSuchProcess"
    /\ proc.q.lookup["2"] = "ok"
    /\ Len(proc.rows) = 2
    /\ \E i \in DOMAIN proc.rows : proc.rows[i] = DegradedRow("1")

\* C20: however many calls of get_process_data meet a failing graphics
\* query, from the loop and from /api/gpu_data requests, the "Graphics apps
\* query not supported" message is logged at most once.
C20_WarningLoggedOnce == obs.graphics_logs <= 1

\* the complete lines of the primary answer, in the order printed
CompleteRows(out) == SelectSeq(out.rows, LAMBDA r : r.nfields >= GpuFieldCount)

\* C21: a line with fewer than 16 fields is dropped and touches no other
\* line: v complete and m short lines give exactly v snapshots, those of the
\* complete lines in input order.
C21_ShortRowsDropped ==
    (snap.called /\ snap.out.raised = "") =>
        LET rows == CompleteRows(snap.out)
        IN /\ Len(snap.value) = Len(rows)
           /\ \A k \in DOMAIN snap.value :
                 /\ snap.value[k].index = rows[k].index
                 /\ snap.value[k].temperature = rows[k].temperature
                 /\ snap.value[k].power_draw = rows[k].power_draw

\* three complete lines and a short one between them gave three snapshots
C21_Witness ==
    /\ snap.called
    /\ Len(snap.out.rows) = 4
    /\ snap.out.rows[2].nfields < GpuFieldCount
    /\ Len(CompleteRows(snap.out)) = 3
    /\ Len(snap.value) = 3
    /\ snap.value[2].index = "2"

\* C22: get_gpu_data never raises to its caller: when the primary invocation
\* fails (tool missing, non-zero exit, any other exception) the call returns
\* the empty list.
C22_NeverRaises ==
    snap.called =>
        /\ snap.raised = ""
        /\ (snap.out.raised # "" => snap.value = <<>>)

\* the tool could not be launched and the call returned []
C22_Witness ==
    /\ snap.called
    /\ snap.out.raised = "FileNotFoundError"
    /\ snap.raised = ""
    /\ snap.value = <<>>

\* the dedicated CUDA query exited with zero and printed something
DedicatedAnswered(out) == out.cuda.rc = 0 /\ \E i \in DOMAIN out.cuda.lines : out.cuda.lines[i] # ""

\* the banner exited with zero and line i is its first line with the marker
FirstMarker(out, i) ==
    /\ out.banner.rc = 0
    /\ i \in DOMAIN out.banner.lines
    /\ out.banner.lines[i].marker
    /\ \A j \in 1..(i - 1) : ~out.banner.lines[j].marker

\* C29: the CUDA version lookup never blocks primary parsing: when the
\* dedicated query fails or prints nothing the version is the word after the
\* banner's first 'CUDA Version:' marker, else 'N/A'; in each case the
\* snapshots of the primary query are returned, all with that version.
C29_CudaFallback ==
    (snap.called /\ snap.out.raised = "" /\ ~DedicatedAnswered(snap.out)) =>
        /\ Len(snap.value) = Len(CompleteRows(snap.out))
        /\ \A k \in DOMAIN snap.value :
              /\ \A i \in DOMAIN snap.out.banner.lines :
                    (FirstMarker(snap.out, i) /\ snap.out.banner.lines[i].tokens # <<>>)
                        => snap.value[k].cuda_version = snap.out.banner.lines[i].tokens[1]
              /\ (~\E i \in DOMAIN snap.out.banner.lines :
                       FirstMarker(snap.out, i) /\ snap.out.banner.lines[i].tokens # <<>>)
                    => snap.value[k].cuda_version = "N/A"

\* the dedicated query exited non-zero, the banner's first marker says 12.2
C29_Witness ==
    /\ snap.called
    /\ snap.out.cuda.rc # 0
    /\ FirstMarker(snap.out, 2)
    /\ Len(snap.value) >= 2
    /\ \A k \in DOMAIN snap.value : snap.value[k].cuda_version = "12.2"

\* the rate, in tenths of a GT/s, that belongs to a generation text
RateOf(gen, gts) ==
    /\ gen = "1" => gts = 25
    /\ gen = "2" => gts = 50
    /\ gen = "3" => gts = 80
    /\ gen = "4" => gts = 160
    /\ gen = "5" => gts = 320
    /\ gen = "6" => gts = 640
    /\ gen \notin {"1", "2", "3", "4", "5", "6"} => gts = 0

\* C30: in every snapshot pcie_gts_current and pcie_gts_max are the fixed
\* lookup of the matching generation field: 1 gives 2.5, 2 gives 5.0, 3 gives
\* 8.0, 4 gives 16.0, 5 gives 32.0, 6 gives 64.0, any other text 0.0.
C30_GtsLookup ==
    snap.called =>
        \A k \in DOMAIN snap.value :
            /\ RateOf(snap.value[k].pcie_gen_current, snap.value[k].pcie_gts_current)
            /\ RateOf(snap.value[k].pcie_gen_max, snap.value[k].pcie_gts_max)

\* a snapshot of generation 3 with an unsupported maximum
C30_Witness ==
    /\ snap.called
    /\ \E k \in DOMAIN snap.value :
          /\ snap.value[k].pcie_gen_current = "3"
          /\ snap.value[k].pcie_gts_current = 80
          /\ snap.value[k].pcie_gen_max = "[N/A]"
          /\ snap.value[k].pcie_gts_max = 0

\* C23: both control endpoints answer every request with a {success,
\* message} result: whatever the body (valid, out of range, non-integer,
\* missing field, no JSON), neither view ends with an unhandled exception or
\* without a result.
C23_EveryRequestAnswered ==
    http.op \in {"set_power", "set_update_interval"} => http.result.kind = "json"

\* the history step of the current cycle is over
AfterHistory == pc \in {"emit", "sleep", "sleeping"}

\* C24: a poll cycle pushes to the history exactly when it collected at
\* least one snapshot, pushes one point, and derives it from element 0; a
\* cycle with an empty collection leaves the history as it was.
C24_PushIffCollected ==
    AfterHistory =>
        IF gpu_data = <<>>
        THEN gpu_history = obs.ring_at_start
        ELSE gpu_history =
                 DequeAppend(obs.ring_at_start,
                             [timestamp |-> clock,
                              temperature |-> Float(gpu_data[1].temperature).v,
                              power |-> Float(gpu_data[1].power_draw).v])

\* C25: the history in a broadcast payload is the deque's contents at that
\* moment, oldest first, and when the cycle collected a snapshot its last
\* element is the point that cycle pushed: the push comes before the emit.
C25_PayloadHistory ==
    emitted # NoPayload =>
        /\ emitted.timestamp = clock => emitted.history = gpu_history
        /\ \A i \in 1..(Len(emitted.history) - 1) :
              emitted.history[i].timestamp < emitted.history[i + 1].timestamp
        /\ emitted.gpu_info # <<>> =>
              /\ emitted.history # <<>>
              /\ Last(emitted.history).timestamp = emitted.timestamp
              /\ Last(emitted.history).temperature = Float(emitted.gpu_info[1].temperature).v
              /\ Last(emitted.history).power = Float(emitted.gpu_info[1].power_draw).v

\* a payload of a full deque that has dropped its oldest points
C25_Witness ==
    /\ emitted.timestamp = clock
    /\ emitted.gpu_info # <<>>
    /\ Len(emitted.history) = HistoryMaxLen
    /\ emitted.history[1].timestamp > 1

\* the pids of the returned rows
RowPids(rows) == {RowPidText(rows[i]) : i \in DOMAIN rows}

\* C28: a non-zero exit of either process query does not fail
\* get_process_data: when the compute query fails the graphics query is
\* still run and its rows are returned; when the graphics query fails the
\* result is the rows of the compute query alone.
C28_QueryFailureTolerated ==
    (proc.called /\ proc.q.launched) =>
        LET c == proc.q.compute
            g == proc.q.graphics
        IN /\ c.rc # 0 =>
                 /\ RowPids(proc.rows) = ReportedBy(g)
                 /\ Len(proc.rows) = Cardinality(ReportedBy(g))
           /\ g.rc # 0 =>
                 /\ RowPids(proc.rows) = ReportedBy(c)
                 /\ Len(proc.rows) = Cardinality(ReportedBy(c))
                 /\ \A pid \in ReportedBy(c) : DictGet(proc.merged, pid) \in MemoriesIn(c, pid)

\* the compute query exited non-zero and the graphics query's two pids are returned
C28_Witness ==
    /\ proc.called
    /\ proc.q.launched
    /\ proc.q.compute.rc # 0
    /\ ReportedBy(proc.q.graphics) = {"1", "2"}
    /\ RowPids(proc.rows) = {"1", "2"}

\* the loop is inside the try block of a cycle
InCycle == pc \in {"collect", "process", "history", "emit"}

\* the cycle that has just reached its sleep failed: the tool did not run to
\* a zero exit, or the history update or the emit raised
CycleFailed == pc = "sleep" /\ (obs.raised \/ obs.tool_rc # 0)

LiveClocks == 1..MaxLiveCycles

\* C26: no failure inside a poll cycle ends the loop: while running is true
\* every cycle, whether its steps succeeded or raised, goes on to the sleep
\* and then to another cycle, and after a failed cycle the loop broadcasts
\* again (the tool not failing for ever: more cycles are left than failing
\* answers).
C26_FailureNeverEndsLoop ==
    /\ [][InCycle => pc' \in {"collect", "process", "history", "emit", "sleep"}]_vars
    /\ (pc = "sleep" /\ budget.cycles > 0) ~> (pc = "collect")
    /\ \A k \in LiveClocks :
          (CycleFailed /\ clock = k /\ budget.cycles > budget.anomalies)
              ~> (emitted.timestamp > k)

\* a broadcast in the cycle after one whose history update or emit raised
C26_Witness ==
    /\ obs.prev_raised
    /\ running
    /\ pc = "sleep"
    /\ emitted.timestamp = clock
    /\ emitted.gpu_info # <<>>

C31_CountNeverNegative ==
    /\ [](connected_clients >= 0)
    /\ [][\A c \in Clients :
             (handler[c] = [op |-> "disconnect", tmp |-> 0] /\ handler'[c] = NoHandler)
                 => connected_clients' = 0]_vars

\* a client's session closed while the count was already 0 (an earlier
\* connect was lost), and its handle_disconnect has read that 0
C31_Witness ==
    /\ connected_clients = 0
    /\ \E c \in Clients : handler[c] = [op |-> "disconnect", tmp |-> 0]

\* C35: a set_power request whose JSON body has no wattage field is handled
\* as wattage 500: it is not rejected, and the one command it runs carries
\* 500.
C35_MissingWattageIs500 ==
    (http.op = "set_power" /\ http.body = NoField) =>
        /\ http.cmds = <<DefaultWattage>>
        /\ ~Rejected(http.result)
        /\ http.result.kind # "raised"
        /\ (http.outcome = "ok" =>
               http.result = Json(TRUE, "Power limit set to {wattage}W successfully", DefaultWattage))

\* a request without the field, answered with success for 500 W
C35_Witness ==
    /\ http.op = "set_power"
    /\ http.body = NoField
    /\ Succeeded(http.result)
    /\ http.result.arg = DefaultWattage

\* C32: a Start Server request made while the server thread is alive starts
\* no server thread and no poll loop and leaves running as it is; so while
\* the server thread stays alive running never goes from false to true, no
\* update_data thread is added, and a loop that has ended after Stop Server
\* stays ended.
C32_StartRefusedWhileAlive ==
    /\ [][(server_thread = "alive" /\ budget'.refusals < budget.refusals) =>
              /\ running' = running
              /\ server_thread' = "alive"
              /\ pc' = pc
              /\ older_loops' = older_loops]_vars
    /\ [][server_thread = "alive" =>
              /\ running' => running
              /\ Len(older_loops') = Len(older_loops)
              /\ pc = "done" => pc' = "done"]_vars

\* a Start Server request found the server thread alive, Stop Server has
\* cleared running and the loop has ended; polling has not resumed
C32_Witness ==
    /\ budget.refusals < MaxRefusedStarts
    /\ server_thread = "alive"
    /\ ~running
    /\ pc = "done"

\* both history fields of a snapshot are texts float() converts
Convertible(snapshot) ==
    snapshot.temperature \in NumericTexts /\ snapshot.power_draw \in NumericTexts

\* the values float() gives
NumericValues == {Float(text).v : text \in NumericTexts}

\* C34: a cycle in which GPU 0's temperature or power_draw does not convert
\* to a number leaves the history unchanged, and every point of the history
\* has a timestamp, a numeric temperature and a numeric power: no partial
\* point is appended.
C34_NoPartialPoint ==
    /\ [][(pc = "history" /\ gpu_data # <<>> /\ ~Convertible(gpu_data[1]))
              => gpu_history' = gpu_history]_vars
    /\ [](\A i \in DOMAIN gpu_history :
              /\ gpu_history[i].timestamp \in 1..clock
              /\ gpu_history[i].temperature \in NumericValues
              /\ gpu_history[i].power \in NumericValues)

\* a cycle whose snapshot did not convert has gone to its sleep with the
\* point of the cycle before still the last of the history
C34_Witness ==
    /\ pc = "sleep"
    /\ gpu_data # <<>>
    /\ ~Convertible(gpu_data[1])
    /\ obs.raised
    /\ gpu_history # <<>>
    /\ gpu_history = obs.ring_at_start

\* the step ends a control request, an /api/gpu_data request, a connect or
\* disconnect handler
ControlStep == budget'.requests < budget.requests
ApiStep == budget'.gets < budget.gets
HandlerEnds(op) == \E c \in Clients : handler[c].op = op /\ handler'[c] = NoHandler

\* C33: the history is changed only by the loop's push; no control request,
\* no /api/gpu_data request and no connect or disconnect event changes it.
\* update_interval is changed only by an accepted set_update_interval, and
\* the subscriber count only by a connect or a disconnect handler.
C33_WritersOfSharedState ==
    /\ [][gpu_history' # gpu_history =>
              /\ pc = "history" /\ pc' = "emit"
              /\ gpu_data # <<>>
              /\ gpu_history' = DequeAppend(gpu_history, HistoryPoint(gpu_data[1], clock).point)]_vars
    /\ [][(ControlStep \/ ApiStep \/ handler' # handler) => gpu_history' = gpu_history]_vars
    /\ [][update_interval' # update_interval =>
              /\ ControlStep
              /\ http'.op = "set_update_interval"
              /\ Succeeded(http'.result)
              /\ http'.after = update_interval']_vars
    /\ [][connected_clients' # connected_clients =>
              HandlerEnds("connect") \/ HandlerEnds("disconnect")]_vars

\* the loop has pushed a point, a control request was rejected and a
\* client's connect handler has returned: the history holds the loop's point
\* alone, the interval is the initial one and the count is the one connect's
C33_Witness ==
    /\ gpu_history # <<>>
    /\ gpu_history = obs.pushes
    /\ http.op \in {"set_power", "set_update_interval"}
    /\ Rejected(http.result)
    /\ update_interval = InitialInterval
    /\ budget.events = 0
    /\ connected_clients = 1
    /\ Quiescent

\* the steps main has called are the first ones of its order
StepsInOrder ==
    /\ Len(build.steps) <= Len(StepOrder)
    /\ \A i \in DOMAIN build.steps : build.steps[i] = StepOrder[i]

\* C36: in the build script's main the compile step runs only after the
\* running-process check, the dependency check and the installation of the
\* build dependencies have each succeeded, in that order; the first failing
\* step ends main with exit code 1 and no later step runs; and main returns
\* 0 only when the executable was produced.
C36_BuildStepsInOrder ==
    /\ StepsInOrder
    /\ Len(build.results) = Len(build.steps)
    /\ \A i \in DOMAIN build.results :
          i < Len(build.results) => build.results[i] = "True"
    /\ \A i \in DOMAIN build.results :
          build.results[i] # (IF i = 4 THEN "path" ELSE "True") =>
              /\ i = Len(build.results)
              /\ build.pc = "returned"
              /\ build.exit = 1
    /\ build.exit = 0 =>
          /\ build.steps = StepOrder
          /\ build.results[4] = "path"
          /\ build.env.compile = "exe"
    /\ build.pc = "returned" <=> build.exit \in {0, 1}

\* the installation failed at its third package: main has returned 1 and
\* compile_executable was not called
C36_Witness ==
    /\ build.pc = "returned"
    /\ build.exit = 1
    /\ build.steps = SubSeq(StepOrder, 1, 3)
    /\ build.results = <<"True", "True", "False">>
    /\ build.installs = 3

====
